---- MODULE Spec2Model ----
(***************************************************************************)
(* Verification model of the synapse backend (Barmada-Lab/synapse).       *)
(*                                                                         *)
(* Part 1: the read scheduler (app/scheduler/flows.py) over the           *)
(* PlatereadSpec / AcquisitionPlan / Wellplate tables, together with the   *)
(* externally driven updates of read status and wellplate location.        *)
(*                                                                         *)
(* Time is counted in hours.  Every call of datetime.now() in the code is  *)
(* a separate reading of the clock; the readings of one scheduler tick are *)
(* non-decreasing and at most MaxDrift apart.                              *)
(***************************************************************************)
EXTENDS Integers, FiniteSets, Sequences, TLC

----------------------------------------------------------------------------
(* Bounds of the model *)

NumReads == 2
MaxTime == 2
MaxDrift == 1

----------------------------------------------------------------------------
(* Enumerations of app/acquisition/models.py and app/labware/models.py *)

ProcessStatus ==
    {"PENDING", "SCHEDULED", "RUNNING", "COMPLETED", "CANCELLED", "ABORTED", "RESET"}

ImagingPriority == {"NORMAL", "LOW"}

Location == {"CQ1", "KX2", "CYTOMAT2", "HOTEL", "EXTERNAL"}

(* is_endstate without ABORTED *)
is_endstate_without_aborted(s) == s \in {"COMPLETED", "CANCELLED"}

is_endstate(s) == s \in {"COMPLETED", "CANCELLED", "ABORTED"}

(* timedelta(hours=6) of get_future_normal_prio *)
SlackHours == 6

----------------------------------------------------------------------------
(* The rows of the store that the scheduler reads *)

Reads == 1..NumReads
Plans == {"p1", "p2"}

(* a deadline column holding NULL *)
NoDeadline == -1
(* a clock reading that a tick did not make *)
NotRead == 0 - 1

(* the values the model draws the rows from *)
StartTimes == {0, 1, 7}
Deadlines == {1, NoDeadline}
StorageLocations == {"CYTOMAT2", "EXTERNAL"}

VARIABLES
    now,        \* the wall clock, in hours
    plan,       \* AcquisitionPlan rows: priority, storage_location
    location,   \* Wellplate.location of the wellplate of each plan
    read,       \* PlatereadSpec rows: acquisition_plan, start_after, deadline
    status,     \* PlatereadSpec.status of each read
    tick        \* record of the last operation, when it was a scheduler tick

schedVars == <<now, plan, location, read, status, tick>>

(* The artifact collections of one acquisition (acquisition/models.py,
   acquisition/crud.py, acquisition/flows/artifact_collections.py) *)
VARIABLES
    rows,       \* ArtifactCollection rows: id, artifact_type, location
    files,      \* the paths that exist in the repositories
    next_id,    \* the next primary key of ArtifactCollection
    ops,        \* the number of copy_collection / move_collection calls so far
    wk          \* per flow run: the call it executes and how far it has got

collVars == <<rows, files, next_id, ops, wk>>

(* The analyses of one acquisition and their jobs
   (acquisition/flows/analysis.py) *)
VARIABLES
    has_plan,   \* whether the acquisition has an acquisition plan
    plan_reads, \* the statuses of the reads of that plan, <<>> before implement_plan
    collected,  \* whether the acquisition has an artifact collection
    stored,     \* the repositories that hold its ACQUISITION_DATA collection
    events,     \* reads whose plateread-status-update COMPLETED is not yet handled
    aspecs,     \* SBatchAnalysisSpec rows of the acquisition's analysis plan
    jobs,       \* SBatchJob rows, in the order of their creation
    eval,       \* record of the last operation, when it called handle_analyses
    sync        \* record of the last operation, when it was sync_analysis_jobs

anaVars == <<has_plan, plan_reads, collected, stored, events, aspecs, jobs, eval, sync>>

(* The materialisation of the reads of one acquisition plan
   (acquisition/flows/acquisition_planning.py, labware/events.py,
   gsheet_integration/acquisition_plans.py) *)
VARIABLES
    acquisition_plans, \* Wellplate.acquisition_plans: the AcquisitionPlan rows of one wellplate
    wp_location,       \* Wellplate.location of that wellplate
    reads,             \* AcquisitionPlan.reads: PlatereadSpec rows in the order of creation
    chk                \* record of the last operation, when it materialised or checked the plan

planVars == <<acquisition_plans, wp_location, reads, chk>>

(* The post-acquisition flows of acquisition/flows/plateread_postprocessing.py
   and the status of the analysis specs *)
VARIABLES
    spec_status, \* SBatchAnalysisSpec.status of each spec of the analysis plan
    requests,    \* per spec: the RequestSubmitJob events emitted for it
    fanout       \* record of the last operation, when it was post_plateread_handler

fanVars == <<spec_status, requests, fanout>>

vars == <<schedVars, collVars, anaVars, planVars, fanVars>>

Workers == {"run_a", "run_b"}

NoRow == [id |-> 0, artifact_type |-> "ACQUISITION_DATA", location |-> "ACQUISITION_STORE"]

(* a flow run that has not been called *)
IdleWorker ==
    [op |-> "none", c |-> NoRow, dest |-> "ACQUISITION_STORE", pc |-> "idle",
     at |-> "idle", err |-> "none", result |-> 0, transferred |-> FALSE,
     dest_at_lookup |-> FALSE, inserted |-> 0, rm_data |-> FALSE, rm_row |-> FALSE]

(* no collection exists and no flow run has been called *)
CollIdle ==
    /\ rows = {}
    /\ files = {}
    /\ next_id = 1
    /\ ops = 0
    /\ wk = [w \in Workers |-> IdleWorker]

(* the value of eval when the last operation has not called handle_analyses *)
NoEval ==
    [ran |-> FALSE, n_jobs |-> 0, due |-> <<>>, results |-> <<>>, created |-> 0,
     raised |-> FALSE]

(* the value of sync when the last operation was not sync_analysis_jobs *)
NoSync ==
    [ran |-> FALSE, active |-> {}, written |-> {}, answers |-> <<>>, hooked |-> {},
     failed |-> 0, raised |-> FALSE]

(* an acquisition without plan, analyses and jobs *)
AnaIdle ==
    /\ has_plan = FALSE
    /\ plan_reads = <<>>
    /\ collected = FALSE
    /\ stored = {}
    /\ events = {}
    /\ aspecs = {}
    /\ jobs = <<>>
    /\ eval = NoEval
    /\ sync = NoSync

(* an Optional column: None, or the value it holds *)
None == <<>>
Some(v) == <<v>>

(* the value of chk when the last operation neither created nor checked a plan *)
NoCheck ==
    [ran |-> FALSE, implemented |-> FALSE, start_time |-> 0, colocated |-> FALSE,
     pre |-> <<>>, created |-> <<>>, submitted |-> {}, raised |-> FALSE]

(* the value of fanout when the last operation was not post_plateread_handler *)
NoPost ==
    [ran |-> FALSE, transfers |-> FALSE, sync_ok |-> FALSE, archive_ok |-> FALSE,
     raised |-> "none", rows |-> {}, files |-> {}, source |-> NoRow]

(* no analysis spec and no post-acquisition flow run *)
FanIdle ==
    /\ spec_status = <<>>
    /\ requests = <<>>
    /\ fanout = NoPost

(* a wellplate without acquisition plan *)
PlanIdle ==
    /\ acquisition_plans = <<>>
    /\ wp_location = "EXTERNAL"
    /\ reads = <<>>
    /\ chk = NoCheck

(* the value of tick when the last operation was not a scheduler tick *)
NoTick ==
    [ran |-> FALSE,
     pre |-> [r \in Reads |-> "PENDING"], mid |-> [r \in Reads |-> "PENDING"],
     t_cancel |-> NotRead, t_normal |-> NotRead, t_future |-> NotRead,
     t_low |-> NotRead, submitted |-> {}, raised |-> FALSE, moved |-> FALSE]

(* tick after an operation that is not a scheduler tick; moved tells whether
   the operation was the relocation of a wellplate *)
Idle(moved) == [NoTick EXCEPT !.moved = moved]

JustMoved == ~tick.ran /\ tick.moved

PlanOf(r) == read[r].acquisition_plan

----------------------------------------------------------------------------
(* app/scheduler/flows.py *)

(* select ... where status == RUNNING limit 1 ... is not None *)
any_platereads_running(st) == \E r \in Reads : st[r] = "RUNNING"

(* cancel_past_deadline with the comparison turned round *)
cancel_not_yet_due(st, t) ==
    [r \in Reads |->
        IF read[r].deadline # NoDeadline /\ read[r].deadline > t
        THEN "CANCELLED"
        ELSE st[r]]

(* cancel_past_deadline comparing with <= *)
cancel_at_deadline(st, t) ==
    [r \in Reads |->
        IF read[r].deadline # NoDeadline /\ read[r].deadline <= t
        THEN "CANCELLED"
        ELSE st[r]]

(* update PlatereadSpec set status = CANCELLED where deadline < t;
   a comparison with a NULL deadline is not true *)
cancel_past_deadline(st, t) ==
    [r \in Reads |->
        IF read[r].deadline # NoDeadline /\ read[r].deadline < t
        THEN "CANCELLED"
        ELSE st[r]]

(* the rows of get_next_task with the where clause on the status left out *)
NextTaskRows_any_status(st, start_after, priority) ==
    {r \in Reads :
        /\ read[r].start_after < start_after
        /\ plan[PlanOf(r)].priority = priority
        /\ location[plan[PlanOf(r)].wellplate] = plan[PlanOf(r)].storage_location}

(* the rows of get_next_task with the where clause on the location left out *)
NextTaskRows_any_location(st, start_after, priority) ==
    {r \in Reads :
        /\ st[r] = "PENDING"
        /\ read[r].start_after < start_after
        /\ plan[PlanOf(r)].priority = priority}

(* the rows of get_next_task with start_after <= before for the strict < *)
NextTaskRows_at_or_before(st, start_after, priority) ==
    {r \in Reads :
        /\ st[r] = "PENDING"
        /\ read[r].start_after <= start_after
        /\ plan[PlanOf(r)].priority = priority
        /\ location[plan[PlanOf(r)].wellplate] = plan[PlanOf(r)].storage_location}

(* the rows that satisfy the where clauses of get_next_task *)
NextTaskRows(st, start_after, priority) ==
    {r \in Reads :
        /\ st[r] = "PENDING"
        /\ read[r].start_after < start_after
        /\ plan[PlanOf(r)].priority = priority
        /\ location[plan[PlanOf(r)].wellplate] = plan[PlanOf(r)].storage_location}

(* get_next_task with the order_by left out: any matching row *)
get_next_task_unordered(st, start_after, priority) ==
    {r \in Reads :
        /\ st[r] = "PENDING"
        /\ read[r].start_after < start_after
        /\ plan[PlanOf(r)].priority = priority
        /\ location[plan[PlanOf(r)].wellplate] = plan[PlanOf(r)].storage_location}

(* order_by(asc(start_after)).limit(1).first(): the rows the query may
   return; the order among rows of equal start_after is not specified and
   the empty set stands for None *)
get_next_task(st, start_after, priority) ==
    LET matching == NextTaskRows(st, start_after, priority)
    IN  {r \in matching : \A q \in matching : read[r].start_after <= read[q].start_after}

get_next_normal_prio(st, t) == get_next_task(st, t, "NORMAL")

(* get_future_normal_prio without the timedelta *)
get_future_normal_prio_no_slack(st, t) == get_next_task(st, t, "NORMAL")

get_future_normal_prio(st, t) == get_next_task(st, t + SlackHours, "NORMAL")

(* get_next_low_prio asking for the wrong priority *)
get_next_low_prio_normal(st, t) == get_next_task(st, t, "NORMAL")

get_next_low_prio(st, t) == get_next_task(st, t, "LOW")

----------------------------------------------------------------------------
(* app/acquisition/flows/overlord.py *)

(* write_batch_xml raises ValueError for a storage location other than
   CYTOMAT2 and HOTEL, and fails when the batch file cannot be written *)
write_batch_xml(storage_location, io_ok) ==
    storage_location \in {"CYTOMAT2", "HOTEL"} /\ io_ok

(* submit_plateread_spec marking every PENDING read of the plan, as
   schedule_unscheduled_reads does *)
submit_all_pending_of_plan(st, spec, io_ok) ==
    IF write_batch_xml(plan[PlanOf(spec)].storage_location, io_ok)
    THEN [r \in Reads |->
            IF PlanOf(r) = PlanOf(spec) /\ st[r] = "PENDING" THEN "SCHEDULED" ELSE st[r]]
    ELSE st

(* submit_plateread_spec writing the status before the batch file *)
submit_status_first(st, spec, io_ok) == [st EXCEPT ![spec] = "SCHEDULED"]

(* submit_plateread_spec: the statuses after the call; the status is
   written only when write_batch_xml has returned *)
submit_plateread_spec(st, spec, io_ok) ==
    IF write_batch_xml(plan[PlanOf(spec)].storage_location, io_ok)
    THEN [st EXCEPT ![spec] = "SCHEDULED"]
    ELSE st

----------------------------------------------------------------------------
(* schedule(): one scheduler tick.  t1..t4 are the clock readings of
   cancel_past_deadline, get_next_normal_prio, get_future_normal_prio and
   get_next_low_prio; io_ok is whether the batch file can be written. *)

Finish(pre, mid, post, t1, t2, t3, t4, submitted, raised) ==
    /\ status' = post
    /\ tick' = [ran |-> TRUE, pre |-> pre, mid |-> mid,
                t_cancel |-> t1, t_normal |-> t2, t_future |-> t3,
                t_low |-> t4, submitted |-> submitted, raised |-> raised,
                moved |-> JustMoved]
    /\ now' = IF t4 # NotRead THEN t4
              ELSE IF t3 # NotRead THEN t3
              ELSE IF t2 # NotRead THEN t2 ELSE t1

Dispatch(pre, mid, spec, t1, t2, t3, t4, io_ok) ==
    Finish(pre, mid, submit_plateread_spec(mid, spec, io_ok), t1, t2, t3, t4,
           {spec}, ~write_batch_xml(plan[PlanOf(spec)].storage_location, io_ok))

schedule ==
    /\ LET t1 == now
           mid == cancel_past_deadline(status, t1)
           Readings(t) == {u \in t..(now + MaxDrift) : u <= MaxTime}
       IN  IF any_platereads_running(mid)
           THEN Finish(status, mid, mid, t1, NotRead, NotRead, NotRead, {}, FALSE)
           ELSE \E t2 \in Readings(t1) :
               IF get_next_normal_prio(mid, t2) # {}
               THEN \E normal_prio \in get_next_normal_prio(mid, t2), io_ok \in BOOLEAN :
                        Dispatch(status, mid, normal_prio, t1, t2, NotRead, NotRead, io_ok)
               ELSE \E t3 \in Readings(t2) :
                   IF get_future_normal_prio(mid, t3) # {}
                   THEN Finish(status, mid, mid, t1, t2, t3, NotRead, {}, FALSE)
                   ELSE \E t4 \in Readings(t3) :
                       IF get_next_low_prio(mid, t4) # {}
                       THEN \E low_prio \in get_next_low_prio(mid, t4), io_ok \in BOOLEAN :
                                Dispatch(status, mid, low_prio, t1, t2, t3, t4, io_ok)
                       ELSE Finish(status, mid, mid, t1, t2, t3, t4, {}, FALSE)
    /\ UNCHANGED <<plan, location, read>>

----------------------------------------------------------------------------
(* The environment of the scheduler *)

(* PATCH /platereads/{id} (routes.update_plateread -> crud.update_plateread)
   writes the status it is given.  Its callers are the instrument, which
   reports a dispatched read RUNNING and then COMPLETED or ABORTED, and the
   operator, who resets a dispatched read. *)
ExternalTransitions ==
    {<<"SCHEDULED", "RUNNING">>, <<"RUNNING", "COMPLETED">>,
     <<"RUNNING", "ABORTED">>, <<"SCHEDULED", "RESET">>}

update_plateread(r, s) ==
    /\ <<status[r], s>> \in ExternalTransitions
    /\ status' = [status EXCEPT ![r] = s]
    /\ tick' = Idle(FALSE)
    /\ UNCHANGED <<now, plan, location, read>>

(* PATCH /wellplates/{id} (crud.update_wellplate): the wellplate is moved *)
update_wellplate(w, l) ==
    /\ location[w] # l
    /\ location' = [location EXCEPT ![w] = l]
    /\ tick' = Idle(TRUE)
    /\ UNCHANGED <<now, plan, read, status>>

(* an hour passes *)
AdvanceClock ==
    /\ now < MaxTime
    /\ now' = now + 1
    /\ tick' = Idle(FALSE)
    /\ UNCHANGED <<plan, location, read, status>>

----------------------------------------------------------------------------

Wellplates == {"w1"}

(* Plans are created with their wellplate at Location.EXTERNAL (the default
   of Wellplate.location); reads are created PENDING.  Reads are numbered in
   the order of (plan, start_after, deadline) to leave out permutations. *)
ReadRows ==
    [acquisition_plan : Plans, start_after : StartTimes, deadline : Deadlines]

PlanIdx(p) == IF p = "p1" THEN 0 ELSE 1

RowKey(row) ==
    (PlanIdx(row.acquisition_plan) * 100) + (row.start_after * 10) + (row.deadline + 1)

SchedInit ==
    /\ now = 0
    /\ plan \in [Plans -> [priority : ImagingPriority,
                           storage_location : StorageLocations,
                           wellplate : Wellplates]]
    /\ plan["p1"].priority = "NORMAL" /\ plan["p1"].storage_location = "CYTOMAT2"
    /\ plan["p2"].priority = "LOW"
    /\ location = [w \in Wellplates |-> "EXTERNAL"]
    /\ read \in [Reads -> ReadRows]
    /\ \A r \in Reads : r + 1 \in Reads => RowKey(read[r]) <= RowKey(read[r + 1])
    /\ status = [r \in Reads |-> "PENDING"]
    /\ tick = NoTick
    /\ CollIdle
    /\ AnaIdle
    /\ PlanIdle
    /\ FanIdle

SchedNext ==
    /\ \/ schedule
       \/ \E r \in Reads, s \in ProcessStatus : update_plateread(r, s)
       \/ \E w \in Wellplates, l \in StorageLocations : update_wellplate(w, l)
       \/ AdvanceClock
    /\ UNCHANGED <<collVars, anaVars, planVars, fanVars>>

SchedSpec == SchedInit /\ [][SchedNext]_vars

----------------------------------------------------------------------------
(* Properties of the read scheduler.  In a state with tick.ran the last      *)
(* operation was a scheduler tick: tick.pre are the statuses before it,      *)
(* tick.mid those after its cancel_past_deadline and status those after it.  *)

Colocated(r) == location[plan[PlanOf(r)].wellplate] = plan[PlanOf(r)].storage_location

PriorityOf(r) == plan[PlanOf(r)].priority

PastDeadline(r, t) == read[r].deadline # NoDeadline /\ read[r].deadline < t

(* the reads the tick turned SCHEDULED *)
Dispatched == {r \in Reads : tick.pre[r] # "SCHEDULED" /\ status[r] = "SCHEDULED"}

(* the co-located reads of a priority that are PENDING when the tick decides
   and have start_after < t *)
Candidates(priority, t) ==
    {r \in Reads :
        /\ tick.mid[r] = "PENDING"
        /\ PriorityOf(r) = priority
        /\ Colocated(r)
        /\ read[r].start_after < t}

Earliest(S) == {r \in S : \A q \in S : read[r].start_after <= read[q].start_after}

(* the clock as the tick read it for a query, or the tick's last reading
   when the tick returned before the query *)
ReadingOr(t) == IF t # NotRead THEN t ELSE now

(* the tick handed exactly the read r to submit_plateread_spec, and r is
   SCHEDULED unless the hand-off failed; no other status changed *)
DispatchedExactly(r) ==
    /\ tick.submitted = {r}
    /\ status = IF tick.raised THEN tick.mid ELSE [tick.mid EXCEPT ![r] = "SCHEDULED"]

(* C1: in every reachable state at most one read has status RUNNING *)
C1_AtMostOneRunning ==
    Cardinality({r \in Reads : status[r] = "RUNNING"}) <= 1

(* C2: if a read is RUNNING when a tick runs, the tick turns no read
   SCHEDULED and evaluates no NextTask query *)
C2_RunningBlocksTick ==
    (tick.ran /\ \E r \in Reads : tick.pre[r] = "RUNNING") =>
        /\ Dispatched = {}
        /\ tick.t_normal = NotRead /\ tick.t_future = NotRead /\ tick.t_low = NotRead

(* C3: a tick changes at most one read from PENDING to SCHEDULED *)
C3_AtMostOneDispatch ==
    tick.ran =>
        Cardinality({r \in Reads : tick.pre[r] = "PENDING" /\ status[r] = "SCHEDULED"}) <= 1

C3_Witness ==
    /\ tick.ran
    /\ Cardinality(Dispatched) = 1
    /\ Cardinality(Candidates("NORMAL", tick.t_normal) \cup Candidates("LOW", tick.t_normal)) >= 2

(* C4: a tick dispatches no LOW read while a co-located PENDING NORMAL read
   has start_after < now + 6h, and when the slack query finds such a read
   (no NORMAL read being due) the tick dispatches nothing *)
C4_SlackWindow ==
    tick.ran =>
        /\ \A l \in tick.submitted \cup Dispatched :
              PriorityOf(l) = "LOW" =>
                  /\ tick.t_future # NotRead
                  /\ Candidates("NORMAL", tick.t_future + SlackHours) = {}
        /\ (tick.t_future # NotRead
              /\ Candidates("NORMAL", tick.t_future + SlackHours) # {}) =>
                  /\ tick.submitted = {}
                  /\ status = tick.mid

C4_Witness ==
    /\ tick.ran
    /\ tick.t_future # NotRead
    /\ Candidates("NORMAL", tick.t_future + SlackHours) # {}
    /\ Candidates("NORMAL", tick.t_future) = {}
    /\ Candidates("LOW", tick.t_future) # {}
    /\ status = tick.mid

(* C5: with no read RUNNING and a co-located PENDING NORMAL read due, the
   tick dispatches the NORMAL read of earliest start_after and no LOW read *)
C5_NormalFirst ==
    (/\ tick.ran
     /\ ~any_platereads_running(tick.mid)
     /\ Candidates("NORMAL", ReadingOr(tick.t_normal)) # {}) =>
        /\ \E n \in Earliest(Candidates("NORMAL", tick.t_normal)) : DispatchedExactly(n)
        /\ \A l \in Reads : PriorityOf(l) = "LOW" => status[l] = tick.mid[l]

C5_Witness ==
    /\ tick.ran
    /\ Candidates("LOW", tick.t_normal) # {}
    /\ \E n \in Candidates("NORMAL", tick.t_normal) :
          status[n] = "SCHEDULED" /\ tick.mid[n] = "PENDING"

(* C6: with no read RUNNING, no co-located PENDING NORMAL read of
   start_after < now + 6h and a co-located PENDING LOW read due, the tick
   dispatches the LOW read of earliest start_after *)
C6_LowWhenSlack ==
    (/\ tick.ran
     /\ ~any_platereads_running(tick.mid)
     /\ Candidates("NORMAL", ReadingOr(tick.t_future) + SlackHours) = {}
     /\ Candidates("LOW", ReadingOr(tick.t_low)) # {}) =>
        \E l \in Earliest(Candidates("LOW", tick.t_low)) : DispatchedExactly(l)

C6_Witness ==
    /\ tick.ran
    /\ \E n \in Reads : PriorityOf(n) = "NORMAL" /\ tick.mid[n] = "PENDING"
    /\ \E l \in Candidates("LOW", tick.t_low) :
          status[l] = "SCHEDULED" /\ tick.mid[l] = "PENDING"

(* C7: a PENDING read whose deadline is earlier than the tick's time is
   CANCELLED by the tick, before the tick decides, and is not dispatched *)
C7_CancelBeforeDispatch ==
    tick.ran =>
        \A r \in Reads :
            (tick.pre[r] = "PENDING" /\ PastDeadline(r, tick.t_cancel)) =>
                /\ tick.mid[r] = "CANCELLED"
                /\ status[r] = "CANCELLED"
                /\ r \notin tick.submitted

C7_Witness ==
    /\ tick.ran
    /\ \E r \in Reads :
          /\ tick.pre[r] = "PENDING" /\ PastDeadline(r, tick.t_cancel)
          /\ Colocated(r) /\ read[r].start_after < tick.t_cancel
          /\ status[r] = "CANCELLED"
    /\ tick.submitted # {}

(* C8: after cancel_past_deadline(now) every read with deadline < now is
   CANCELLED and every other read has the status it had before *)
C8_CancelFrame ==
    tick.ran =>
        \A r \in Reads :
            IF PastDeadline(r, tick.t_cancel)
            THEN tick.mid[r] = "CANCELLED"
            ELSE tick.mid[r] = tick.pre[r]

C8_Witness ==
    /\ tick.ran
    /\ \E r \in Reads :
          PastDeadline(r, tick.t_cancel) /\ tick.pre[r] # "CANCELLED" /\ tick.mid[r] = "CANCELLED"
    /\ \E q \in Reads :
          /\ ~PastDeadline(q, tick.t_cancel)
          /\ tick.pre[q] = "SCHEDULED" /\ tick.mid[q] = "SCHEDULED"

(* C9: cancel_past_deadline changes PENDING reads only: a SCHEDULED,
   RUNNING, COMPLETED, ABORTED or RESET read with deadline < now keeps its
   status *)
C9_CancelOnlyPending ==
    tick.ran =>
        \A r \in Reads :
            (/\ PastDeadline(r, tick.t_cancel)
             /\ tick.pre[r] \in {"SCHEDULED", "RUNNING", "COMPLETED", "ABORTED", "RESET"}) =>
                tick.mid[r] = tick.pre[r]

(* C10: a scheduler tick changes the status of no CANCELLED read and
   dispatches no CANCELLED read *)
C10_CancelledStays ==
    tick.ran =>
        \A r \in Reads :
            tick.pre[r] = "CANCELLED" =>
                /\ tick.mid[r] = "CANCELLED"
                /\ status[r] = "CANCELLED"
                /\ r \notin tick.submitted

C10_Witness ==
    /\ tick.ran
    /\ \E r \in Reads :
          /\ tick.pre[r] = "CANCELLED" /\ status[r] = "CANCELLED"
          /\ Colocated(r) /\ read[r].start_after < tick.t_cancel
    /\ ~any_platereads_running(tick.mid)

(* the reads get_next_task has to choose from, as C12 words them *)
Eligible(before, priority) ==
    {r \in Reads :
        /\ status[r] = "PENDING"
        /\ read[r].start_after < before
        /\ PriorityOf(r) = priority
        /\ Colocated(r)}

(* the values of before at which the answer of get_next_task can change:
   each start time and the hour after it *)
QueryTimes == StartTimes \cup {t + 1 : t \in StartTimes}

(* C11: a tick dispatches no read whose wellplate is not at the plan's
   storage location, and in the first tick after a relocation a read that
   is now co-located is seen by NextTask: when no read is RUNNING and such
   a NORMAL read is due, the tick dispatches a co-located due NORMAL read *)
C11_Colocation ==
    tick.ran =>
        /\ \A r \in tick.submitted \cup Dispatched : Colocated(r)
        /\ (/\ tick.moved
            /\ ~any_platereads_running(tick.mid)
            /\ Candidates("NORMAL", ReadingOr(tick.t_normal)) # {}) =>
                /\ tick.submitted # {}
                /\ tick.submitted \subseteq Candidates("NORMAL", tick.t_normal)

C11_Witness ==
    /\ tick.ran
    /\ tick.moved
    /\ \E r \in Reads : Colocated(r) /\ tick.submitted = {r} /\ status[r] = "SCHEDULED"
    /\ \E q \in Reads : ~Colocated(q) /\ tick.mid[q] = "PENDING" /\ read[q].start_after < tick.t_cancel

(* C12: get_next_task(before, priority) returns a read of smallest
   start_after among the PENDING, co-located reads of that priority with
   start_after < before, and returns nothing exactly when there is none *)
C12_NextTask ==
    \A before \in QueryTimes, priority \in ImagingPriority :
        LET result == get_next_task(status, before, priority)
            eligible == Eligible(before, priority)
        IN  /\ result = {} <=> eligible = {}
            /\ \A r \in result :
                  /\ r \in eligible
                  /\ \A q \in eligible : read[r].start_after <= read[q].start_after

C12_Witness ==
    \E before \in QueryTimes, priority \in ImagingPriority :
        /\ Cardinality(Eligible(before, priority)) >= 2
        /\ priority = "NORMAL"
        /\ \E r \in Eligible(before, priority) :
              /\ get_next_task(status, before, priority) = {r}
              /\ \E q \in Eligible(before, priority) : read[r].start_after < read[q].start_after

(* C13: a read turns SCHEDULED only when the batch file has been written;
   when the hand-off fails the tick raises, the selected read stays PENDING
   and the reads the tick has cancelled stay CANCELLED *)
C13_HandOff ==
    tick.ran =>
        /\ \A r \in Dispatched : r \in tick.submitted /\ ~tick.raised
        /\ tick.raised =>
              /\ tick.submitted # {}
              /\ \A r \in tick.submitted : status[r] = "PENDING"
              /\ \A r \in Reads : tick.mid[r] = "CANCELLED" => status[r] = "CANCELLED"
              /\ status = tick.mid

C13_Witness ==
    /\ tick.ran
    /\ tick.raised
    /\ \E r \in tick.submitted :
          status[r] = "PENDING" /\ plan[PlanOf(r)].storage_location = "CYTOMAT2"
    /\ \E q \in Reads : tick.pre[q] = "PENDING" /\ status[q] = "CANCELLED"

----------------------------------------------------------------------------
(* Artifact collections: copy_collection, move_collection and cleanup        *)

MaxInserts == 2
MaxOps == 2

Repository == {"ACQUISITION_STORE", "ARCHIVE_STORE", "ANALYSIS_STORE"}

ArtifactType == {"ACQUISITION_DATA", "ANALYSIS_DATA"}

(* the path of a collection below the acquisition's directory of a
   repository: the lower-cased artifact type, with the extension .tar.zst
   (packed) in the archive *)
get_artifact_collection_path(repository, artifact_type) ==
    [tier |-> repository, name |-> artifact_type,
     packed |-> (repository = "ARCHIVE_STORE")]

(* ArtifactCollection.path *)
PathOf(c) == get_artifact_collection_path(c.location, c.artifact_type)

(* the paths the three transfer commands write below the acquisition's
   directory of the destination *)
sync_cmd(origin, dest_base) == [origin EXCEPT !.tier = dest_base]

archive_cmd(origin, dest_base) == [origin EXCEPT !.tier = dest_base, !.packed = TRUE]

retrieve_cmd(origin, dest_base) == [origin EXCEPT !.tier = dest_base, !.packed = FALSE]

(* the match statement of copy_collection *)
TransferKind(origin, dest) ==
    IF origin = "ARCHIVE_STORE" THEN "retrieve"
    ELSE IF dest = "ARCHIVE_STORE" THEN "archive"
    ELSE IF origin = dest THEN "same"
    ELSE "sync"

TransferDest(c, dest) ==
    CASE TransferKind(c.location, dest) = "retrieve" -> retrieve_cmd(PathOf(c), dest)
      [] TransferKind(c.location, dest) = "archive" -> archive_cmd(PathOf(c), dest)
      [] OTHER -> sync_cmd(PathOf(c), dest)

(* crud.get_artifact_collection_by_key: the rows of the key; first() returns
   one of them, None when the set is empty *)
get_artifact_collection_by_key_miss(rs, loc, artifact_type) == {}

get_artifact_collection_by_key(rs, loc, artifact_type) ==
    {r \in rs : r.location = loc /\ r.artifact_type = artifact_type}

(* the test of create_artifact_collection_copy that raises
   ValueError("Duplicate artifact collection!") *)
DuplicateLocation(rs, c, loc) ==
    c.location = loc \/ \E other \in rs : other.location = loc

(* the table without its unique constraint *)
no_unique_constraint(rs, row) == TRUE

(* UniqueConstraint unique_acquisition_collection: whether the table accepts
   the row *)
unique_acquisition_collection(rs, row) ==
    ~ \E r \in rs : r.artifact_type = row.artifact_type /\ r.location = row.location

(* crud.create_artifact_collection: the table after the insert; a row the
   constraint rejects raises IntegrityError and leaves the table as it was *)
create_artifact_collection(rs, row) ==
    IF unique_acquisition_collection(rs, row) THEN rs \cup {row} ELSE rs

(* copy_collection going on after a transfer that failed *)
copy_next_ignoring_transfer(pc, ok) ==
    CASE pc = "transfer" -> "lookup"
      [] pc = "lookup" -> IF ok THEN "return" ELSE "check"
      [] pc = "check" -> IF ok THEN "insert" ELSE "raise"
      [] OTHER -> IF ok THEN "return" ELSE "raise"

(* the control flow of copy_collection: the step after step pc, given
   whether pc succeeded (for lookup: whether a row was found) *)
copy_next(pc, ok) ==
    CASE pc = "transfer" -> IF ok THEN "lookup" ELSE "raise"
      [] pc = "lookup" -> IF ok THEN "return" ELSE "check"
      [] pc = "check" -> IF ok THEN "insert" ELSE "raise"
      [] OTHER -> IF ok THEN "return" ELSE "raise"

(* move_collection cleaning up whatever copy_collection did *)
move_next_always_cleanup(copied) == "rm_data"

(* the control flow of move_collection: cleanup is called when
   copy_collection has returned *)
move_next(copied) == IF copied THEN "rm_data" ELSE "raise"

NextPc(op, pc, ok) ==
    LET n == copy_next(pc, ok)
        m == IF n \in {"return", "raise"} /\ op = "move"
             THEN move_next(n = "return")
             ELSE n
    IN  IF m = "return" THEN "done" ELSE IF m = "raise" THEN "failed" ELSE m

(* the flow run after a step of copy_collection that succeeded or raised e *)
Goto(rec, ok, e) ==
    LET n == NextPc(rec.op, rec.pc, ok)
    IN  [rec EXCEPT !.pc = n,
                    !.at = IF n = "failed" THEN rec.pc ELSE rec.at,
                    !.err = IF n = "failed" THEN e ELSE rec.err]

Terminal == {"idle", "done", "failed"}

(* a flow run calls copy_collection or move_collection on a collection it
   has read from the table; the first call is made by run_a *)
Start(w, op, c, dest) ==
    /\ wk[w].pc \in Terminal
    /\ w = "run_b" => wk["run_a"].pc # "idle"
    /\ ops < MaxOps
    /\ c \in rows
    /\ wk' = [wk EXCEPT ![w] = [IdleWorker EXCEPT !.op = op, !.c = c,
                                                  !.dest = dest, !.pc = "transfer"]]
    /\ ops' = ops + 1
    /\ UNCHANGED <<rows, files, next_id>>

(* _retrieve / _archive / _sync; ok is whether the subprocess succeeds,
   partial whether a failed one leaves output behind *)
Transfer(w, ok, partial) ==
    LET rec == wk[w]
        dst == TransferDest(rec.c, rec.dest)
        done == ok /\ PathOf(rec.c) \in files
    IN  /\ rec.pc = "transfer"
        /\ IF TransferKind(rec.c.location, rec.dest) = "same"
           THEN /\ ~ok /\ ~partial
                /\ wk' = [wk EXCEPT ![w] = Goto(rec, FALSE, "ValueError")]
                /\ UNCHANGED files
           ELSE /\ files' = IF done \/ partial THEN files \cup {dst} ELSE files
                /\ wk' = [wk EXCEPT ![w] =
                            Goto([rec EXCEPT !.transferred = done], done, "TransferError")]
        /\ UNCHANGED <<rows, next_id, ops>>

Lookup(w) ==
    LET rec == wk[w]
        found == get_artifact_collection_by_key(rows, rec.dest, rec.c.artifact_type)
        there == \E r \in rows :
                    r.location = rec.dest /\ r.artifact_type = rec.c.artifact_type
    IN  /\ rec.pc = "lookup"
        /\ IF found # {}
           THEN \E r \in found :
                    wk' = [wk EXCEPT ![w] =
                             Goto([rec EXCEPT !.result = r.id, !.dest_at_lookup = there],
                                  TRUE, "none")]
           ELSE wk' = [wk EXCEPT ![w] =
                         Goto([rec EXCEPT !.dest_at_lookup = there], FALSE, "none")]
        /\ UNCHANGED <<rows, files, next_id, ops>>

(* create_artifact_collection_copy up to its call of create_artifact_collection *)
Check(w) ==
    LET rec == wk[w]
    IN  /\ rec.pc = "check"
        /\ wk' = [wk EXCEPT ![w] =
                    Goto(rec, ~DuplicateLocation(rows, rec.c, rec.dest), "ValueError")]
        /\ UNCHANGED <<rows, files, next_id, ops>>

Insert(w) ==
    LET rec == wk[w]
        new == [id |-> next_id, artifact_type |-> rec.c.artifact_type,
                location |-> rec.dest]
        ok == unique_acquisition_collection(rows, new)
    IN  /\ rec.pc = "insert"
        /\ ok => next_id <= MaxInserts
        /\ rows' = create_artifact_collection(rows, new)
        /\ next_id' = IF ok THEN next_id + 1 ELSE next_id
        /\ wk' = [wk EXCEPT ![w] =
                    Goto([rec EXCEPT !.result = IF ok THEN new.id ELSE 0,
                                     !.inserted = IF ok THEN new.id ELSE 0],
                         ok, "IntegrityError")]
        /\ UNCHANGED <<files, ops>>

(* cleanup: _cleanup_cmd(collection.path) *)
CleanupData(w) ==
    LET rec == wk[w]
    IN  /\ rec.pc = "rm_data"
        /\ files' = files \ {PathOf(rec.c)}
        /\ wk' = [wk EXCEPT ![w] = [rec EXCEPT !.pc = "rm_row", !.rm_data = TRUE]]
        /\ UNCHANGED <<rows, next_id, ops>>

(* cleanup: session.delete(collection); session.commit() *)
CleanupRow(w) ==
    LET rec == wk[w]
    IN  /\ rec.pc = "rm_row"
        /\ IF rec.c \in rows
           THEN /\ rows' = rows \ {rec.c}
                /\ wk' = [wk EXCEPT ![w] = [rec EXCEPT !.pc = "done", !.rm_row = TRUE]]
           ELSE /\ rows' = rows
                /\ wk' = [wk EXCEPT ![w] = [rec EXCEPT !.pc = "failed", !.at = "rm_row",
                                                       !.err = "StaleDataError"]]
        /\ UNCHANGED <<files, next_id, ops>>

(* the step a flow run is at raises (the database or the filesystem fails)
   or the flow run crashes *)
Fail(w) ==
    LET rec == wk[w]
    IN  /\ rec.pc \in {"lookup", "check", "insert", "rm_data", "rm_row"}
        /\ wk' = [wk EXCEPT ![w] = [rec EXCEPT !.pc = "failed", !.at = rec.pc,
                                               !.err = "Crash"]]
        /\ UNCHANGED <<rows, files, next_id, ops>>

(* the collections that are created where their data is produced *)
CreateKeys ==
    {<<"ACQUISITION_DATA", "ACQUISITION_STORE">>, <<"ANALYSIS_DATA", "ANALYSIS_STORE">>}

(* data has been written to a repository and its collection is registered
   with crud.create_artifact_collection (on_plateread_completed) *)
CreateCollection(artifact_type, loc) ==
    LET new == [id |-> next_id, artifact_type |-> artifact_type, location |-> loc]
    IN  /\ <<artifact_type, loc>> \in CreateKeys
        /\ unique_acquisition_collection(rows, new) => next_id <= MaxInserts
        /\ files' = files \cup {PathOf(new)}
        /\ rows' = create_artifact_collection(rows, new)
        /\ next_id' = IF unique_acquisition_collection(rows, new)
                      THEN next_id + 1 ELSE next_id
        /\ UNCHANGED <<ops, wk>>

(* the scheduler's tables while the collections are exercised *)
SchedIdle ==
    /\ now = 0
    /\ plan = [p \in Plans |-> [priority |-> "NORMAL", storage_location |-> "CYTOMAT2",
                                wellplate |-> "w1"]]
    /\ location = [w \in Wellplates |-> "EXTERNAL"]
    /\ read = [r \in Reads |-> [acquisition_plan |-> "p1", start_after |-> 0,
                                deadline |-> NoDeadline]]
    /\ status = [r \in Reads |-> "PENDING"]
    /\ tick = NoTick

CollInit == CollIdle /\ SchedIdle /\ AnaIdle /\ PlanIdle /\ FanIdle

CollNext ==
    /\ \/ \E w \in Workers, op \in {"copy", "move"}, c \in rows, dest \in Repository :
              Start(w, op, c, dest)
       \/ \E w \in Workers, ok \in BOOLEAN, partial \in BOOLEAN : Transfer(w, ok, partial)
       \/ \E w \in Workers : Lookup(w)
       \/ \E w \in Workers : Check(w)
       \/ \E w \in Workers : Insert(w)
       \/ \E w \in Workers : CleanupData(w)
       \/ \E w \in Workers : CleanupRow(w)
       \/ \E w \in Workers : Fail(w)
       \/ \E artifact_type \in ArtifactType, loc \in Repository :
              CreateCollection(artifact_type, loc)
    /\ UNCHANGED <<schedVars, anaVars, planVars, fanVars>>

CollSpec == CollInit /\ [][CollNext]_vars

----------------------------------------------------------------------------
(* Properties of the artifact collections.  wk[w] keeps what the last call   *)
(* of flow run w has done: transferred, inserted (the id of the row it has   *)
(* inserted, 0 for none), rm_data, rm_row, and where it has failed (at, err) *)

(* the rows at the destination key of the call of a flow run *)
DestRows(rec) ==
    {r \in rows : r.location = rec.dest /\ r.artifact_type = rec.c.artifact_type}

CopySteps == {"transfer", "lookup", "check", "insert"}

FailedAt(rec, steps) == rec.pc = "failed" /\ rec.at \in steps

(* C14 (the part "there is never a row whose data is missing"): in every
   reachable state the path of every collection row exists *)
C14_RowHasData == \A r \in rows : PathOf(r) \in files

(* C15: a call writes the destination row only after its transfer has
   succeeded; a call whose transfer has failed has inserted no row, and when
   it is the only call so far no destination row exists *)
C15_NoRowOnTransferFailure ==
    \A w \in Workers :
        LET rec == wk[w]
        IN  /\ rec.inserted # 0 => rec.transferred
            /\ rec.pc \in {"lookup", "check", "insert"} => rec.transferred
            /\ rec.err = "TransferError" =>
                  /\ FailedAt(rec, {"transfer"})
                  /\ rec.inserted = 0
                  /\ ops = 1 => DestRows(rec) = {}

C15_Witness ==
    \E w \in Workers :
        /\ wk[w].op = "copy"
        /\ wk[w].err = "TransferError"
        /\ PathOf(wk[w].c) \in files
        /\ TransferDest(wk[w].c, wk[w].dest) \in files
        /\ DestRows(wk[w]) = {}

(* C16: when the only call so far is a Move(X, D) to another tier that has
   returned or failed, exactly one of the rows X and D exists *)
C16_MoveExactlyOne ==
    \A w \in Workers :
        LET rec == wk[w]
        IN  (/\ ops = 1
             /\ rec.op = "move"
             /\ rec.pc \in {"done", "failed"}
             /\ rec.c.location # rec.dest) =>
                ((rec.c \in rows) # (DestRows(rec) # {}))

(* C17: a Move deletes source data and source row only when its Copy has
   returned a row; a Move whose Copy has failed has deleted nothing, and when
   it is the only call so far the source row and its data are still there *)
C17_CleanupAfterCopy ==
    \A w \in Workers :
        LET rec == wk[w]
        IN  rec.op = "move" =>
              /\ (rec.pc \in {"rm_data", "rm_row"} \/ rec.rm_data \/ rec.rm_row) =>
                    rec.transferred /\ rec.result # 0
              /\ rec.rm_row => rec.rm_data
              /\ FailedAt(rec, CopySteps) =>
                    /\ ~rec.rm_data /\ ~rec.rm_row
                    /\ ops = 1 => rec.c \in rows /\ PathOf(rec.c) \in files

C17_Witness ==
    \E a, b \in Workers :
        /\ wk[a].op = "move" /\ wk[a].pc = "done" /\ wk[a].rm_row
        /\ wk[a].c \notin rows /\ DestRows(wk[a]) # {}
        /\ wk[b].op = "move" /\ FailedAt(wk[b], {"transfer"})
        /\ wk[b].c \in rows /\ PathOf(wk[b].c) \in files

(* C18: no two collection rows have the same artifact type and tier, and a
   call whose insert was rejected by the constraint has added no row *)
C18_UniqueKey ==
    /\ \A r1, r2 \in rows :
          (r1.artifact_type = r2.artifact_type /\ r1.location = r2.location) => r1 = r2
    /\ \A w \in Workers :
          wk[w].err = "IntegrityError" => FailedAt(wk[w], {"insert"}) /\ wk[w].inserted = 0

C18_Witness ==
    \E w \in Workers :
        /\ wk[w].err = "IntegrityError"
        /\ Cardinality(DestRows(wk[w])) = 1
        /\ Cardinality(rows) = 2

(* C19: when two Copy calls of the same collection to the same other tier
   have both ended, neither by a failed transfer or a crash, and the tier
   holds no collection of another type, both have returned the same row and
   it is the only destination row *)
C19_ConcurrentCopies ==
    \A a, b \in Workers :
        (/\ a # b
         /\ wk[a].op = "copy" /\ wk[b].op = "copy"
         /\ wk[a].c = wk[b].c /\ wk[a].dest = wk[b].dest
         /\ wk[a].c.location # wk[a].dest
         /\ wk[a].pc \in {"done", "failed"} /\ wk[b].pc \in {"done", "failed"}
         /\ wk[a].err \notin {"TransferError", "Crash"}
         /\ wk[b].err \notin {"TransferError", "Crash"}
         /\ \A r \in rows : r.location = wk[a].dest =>
                                r.artifact_type = wk[a].c.artifact_type) =>
            /\ wk[a].pc = "done" /\ wk[b].pc = "done"
            /\ wk[a].result = wk[b].result
            /\ Cardinality(DestRows(wk[a])) = 1

(* C20: a Copy whose transfer has succeeded and that finds a row at the
   destination key returns that row and leaves the rows as they are *)
C20_RetryReturnsExisting ==
    [][\A w \in Workers :
          (/\ wk[w].pc = "lookup"
           /\ wk'[w].pc \notin {"lookup", "failed"}
           /\ DestRows(wk[w]) # {}) =>
              /\ wk'[w].pc = IF wk[w].op = "move" THEN "rm_data" ELSE "done"
              /\ \E r \in DestRows(wk[w]) : wk'[w].result = r.id
              /\ wk'[w].inserted = 0
              /\ rows' = rows]_vars

C20_Witness ==
    \E a, b \in Workers :
        /\ a # b
        /\ wk[a].op = "copy" /\ wk[a].pc = "done" /\ wk[a].inserted # 0
        /\ wk[b].op = "copy" /\ wk[b].pc = "done" /\ wk[b].dest_at_lookup
        /\ wk[b].c = wk[a].c /\ wk[b].dest = wk[a].dest
        /\ wk[b].inserted = 0 /\ wk[b].result = wk[a].inserted
        /\ Cardinality(rows) = 2

(* C21: a call of Copy or Move whose destination is the tier of its
   collection runs no transfer, inserts no row and ends by raising the
   ValueError of the match statement *)
C21_SameTierFails ==
    \A w \in Workers :
        LET rec == wk[w]
        IN  (rec.op # "none" /\ rec.c.location = rec.dest) =>
              /\ ~rec.transferred
              /\ rec.inserted = 0
              /\ rec.pc \in {"transfer", "failed"}
              /\ rec.pc = "failed" => rec.at = "transfer" /\ rec.err = "ValueError"

----------------------------------------------------------------------------
(* Analyses: handle_analyses and the submission of sbatch jobs               *)

AnaReads == 2
MaxJobs == 2

AnalysisTrigger == {"END_OF_RUN", "POST_READ", "IMMEDIATE"}

(* the analysis specs an analysis plan may hold: one of each trigger, and
   post-read analyses for the first and for the last read; trigger_value 0
   is None *)
AnalysisSpecs ==
    {[trigger |-> "IMMEDIATE", trigger_value |-> 0],
     [trigger |-> "END_OF_RUN", trigger_value |-> 0]}
    \cup {[trigger |-> "POST_READ", trigger_value |-> k] : k \in {1, AnaReads}}

(* the statuses a read goes through: cancelled by the scheduler, or
   dispatched and then reported by the instrument *)
ReadTransitions ==
    {<<"PENDING", "SCHEDULED">>, <<"PENDING", "CANCELLED">>,
     <<"SCHEDULED", "RUNNING">>, <<"RUNNING", "COMPLETED">>, <<"RUNNING", "ABORTED">>}

(* what the executor returns for sbatch: the exit code, and whether stdout
   matches JOB_SUBMIT_REGEX *)
ShellResults == [returncode : {0, 1}, job_id : BOOLEAN]

OkResult == [returncode |-> 0, job_id |-> TRUE]

(* submit_sbatch_job that does not look at the exit code *)
submit_sbatch_job_any_returncode(result) == result.job_id

(* submit_sbatch_job: TRUE when it returns a job id, FALSE when it raises
   ValueError *)
submit_sbatch_job(result) == result.returncode = 0 /\ result.job_id

(* sum(read.status == COMPLETED ...) and sum(read.status.is_endstate ...) *)
n_complete(rs) == Cardinality({i \in DOMAIN rs : rs[i] = "COMPLETED"})

n_end_states(rs) == Cardinality({i \in DOMAIN rs : is_endstate(rs[i])})

(* the specs of a job-less filter *)
handle_immediate_analyses_resubmitting(specs, js) ==
    {a \in specs : a.trigger = "IMMEDIATE"}

(* the analyses handle_immediate_analyses submits *)
handle_immediate_analyses(specs, js) ==
    {a \in specs : a.trigger = "IMMEDIATE" /\ ~ \E j \in DOMAIN js : js[j].spec = a}

handle_post_read_analyses_at_least(read_idx, specs) ==
    {a \in specs : a.trigger = "POST_READ" /\ a.trigger_value <= read_idx}

(* the analyses handle_post_read_analyses submits *)
handle_post_read_analyses(read_idx, specs) ==
    {a \in specs : a.trigger = "POST_READ" /\ a.trigger_value = read_idx}

(* the analyses handle_end_of_run_analyses submits *)
handle_end_of_run_analyses(specs) == {a \in specs : a.trigger = "END_OF_RUN"}

(* the analyses of a set in the order of the relationship's list *)
RECURSIVE SeqOf(_)
SeqOf(S) ==
    IF S = {} THEN <<>>
    ELSE LET a == CHOOSE x \in S : \A y \in S : x.trigger_value <= y.trigger_value
         IN  <<a>> \o SeqOf(S \ {a})

(* handle_analyses that does not test acquisition.acquisition_plan *)
handle_analyses_without_plan_test(hp, rs, specs, js) ==
    SeqOf(handle_immediate_analyses(specs, js))
    \o (IF n_complete(rs) > 0
        THEN SeqOf(handle_post_read_analyses(n_complete(rs), specs)) ELSE <<>>)
    \o (IF n_end_states(rs) = Len(rs)
        THEN SeqOf(handle_end_of_run_analyses(specs)) ELSE <<>>)

(* handle_analyses that starts the end-of-run analyses with the first
   completed read *)
handle_analyses_end_of_run_early(hp, rs, specs, js) ==
    SeqOf(handle_immediate_analyses(specs, js))
    \o (IF hp /\ n_complete(rs) > 0
        THEN SeqOf(handle_post_read_analyses(n_complete(rs), specs))
             \o SeqOf(handle_end_of_run_analyses(specs))
        ELSE <<>>)

(* handle_analyses: the analyses it submits, in this order, for an
   acquisition with (hp) or without acquisition plan; AnaReads is n_reads *)
handle_analyses(hp, rs, specs, js) ==
    SeqOf(handle_immediate_analyses(specs, js))
    \o (IF hp
        THEN (IF n_complete(rs) > 0
              THEN SeqOf(handle_post_read_analyses(n_complete(rs), specs)) ELSE <<>>)
             \o (IF n_end_states(rs) = AnaReads
                 THEN SeqOf(handle_end_of_run_analyses(specs)) ELSE <<>>)
        ELSE <<>>)

(* the number of submissions made before the first one that raises *)
RECURSIVE Successes(_)
Successes(results) ==
    IF results = <<>> THEN 0
    ELSE IF submit_sbatch_job(Head(results)) THEN 1 + Successes(Tail(results))
    ELSE 0

(* the outcome of a call of handle_analyses that has the analyses due to
   submit and gets results from the executor: submit_sbatch_analysis creates
   a PENDING job for every submission that returns a job id, and the first
   submission that raises ends the call *)
Submit(due, results) ==
    LET created == Successes(results)
    IN  /\ Len(jobs) + created <= MaxJobs
        /\ jobs' = jobs \o [i \in 1..created |->
                               [spec |-> due[i], status |-> "PENDING", hooks |-> 0]]
        /\ eval' = [ran |-> TRUE, n_jobs |-> Len(jobs), due |-> due, results |-> results,
                    created |-> created, raised |-> created < Len(results)]

(* a call of handle_analyses: the executor answers the first k submissions
   with OkResult and the next one, if there is one, with another result *)
Evaluate(specs) ==
    LET due == handle_analyses(has_plan, plan_reads, specs, jobs)
    IN  \/ Submit(due, [i \in 1..Len(due) |-> OkResult])
        \/ \E k \in 0..(Len(due) - 1), bad \in ShellResults \ {OkResult} :
               Submit(due, [i \in 1..(k + 1) |-> IF i <= k THEN OkResult ELSE bad])

(* the reads of the plan are created when the plan is implemented *)
implement_plan ==
    /\ has_plan
    /\ plan_reads = <<>>
    /\ plan_reads' = [i \in 1..AnaReads |-> "PENDING"]
    /\ eval' = NoEval
    /\ UNCHANGED <<has_plan, collected, stored, events, aspecs, jobs, sync>>

(* a read changes its status; routes.update_plateread posts the event that
   starts on_plateread_completed when the new status is COMPLETED.  The reads
   enumerated are dispatched one at a time, as the instrument takes them *)
report_plateread(i, st) ==
    /\ i \in DOMAIN plan_reads
    /\ <<plan_reads[i], st>> \in ReadTransitions
    /\ st = "SCHEDULED" =>
          ~ \E j \in DOMAIN plan_reads : plan_reads[j] \in {"SCHEDULED", "RUNNING"}
    /\ plan_reads' = [plan_reads EXCEPT ![i] = st]
    /\ events' = IF st = "COMPLETED" THEN events \cup {i} ELSE events
    /\ eval' = NoEval
    /\ UNCHANGED <<has_plan, collected, stored, aspecs, jobs, sync>>

(* the test of on_plateread_completed with the first completed read taken
   for the end of the run *)
archive_acquisition_data_early(rs) == n_complete(rs) > 0

(* the test of on_plateread_completed under which it archives the
   acquisition data: n_endstates == total_reads *)
archive_acquisition_data(rs) == n_end_states(rs) = AnaReads

(* on_plateread_completed: the acquisition's collection is created in the
   acquisition store when it is missing and copied to the analysis store;
   handle_analyses is called; then the collection is moved to the archive
   when archive_acquisition_data holds.  A copy or a submission that raises
   ends the flow; a move that raises is taken to leave the collection as it
   was (move_ok is an input only of the flows that get to the move) *)
on_plateread_completed(i, copy_ok, move_ok) ==
    /\ i \in events
    /\ (~copy_ok \/ ~archive_acquisition_data(plan_reads)) => move_ok
    /\ events' = events \ {i}
    /\ collected' = TRUE
    /\ IF copy_ok
       THEN Evaluate(aspecs)
       ELSE /\ jobs' = jobs
            /\ eval' = NoEval
    /\ stored' =
          LET created == stored \cup {"ACQUISITION_STORE"}
          IN  IF ~copy_ok THEN created
              ELSE IF eval'.raised \/ ~archive_acquisition_data(plan_reads) \/ ~move_ok
              THEN created \cup {"ANALYSIS_STORE"}
              ELSE {"ANALYSIS_STORE", "ARCHIVE_STORE"}
    /\ UNCHANGED <<has_plan, plan_reads, aspecs, sync>>

(* sync_google_sheets: a row of the create_analysis_plan sheet adds a spec to
   the acquisition's analysis plan (a in aspecs: a row whose spec is not
   created adds nothing), then handle_analyses is called for the acquisition
   of the row *)
sync_google_sheets(a) ==
    /\ aspecs' = aspecs \cup {a}
    /\ Evaluate(aspecs \cup {a})
    /\ UNCHANGED <<has_plan, plan_reads, collected, stored, events, sync>>

(* data acquired without a plan is registered as a collection *)
register_collection ==
    /\ ~collected
    /\ collected' = TRUE
    /\ eval' = NoEval
    /\ UNCHANGED <<has_plan, plan_reads, stored, events, aspecs, jobs, sync>>

AnaInit ==
    /\ SchedIdle
    /\ CollIdle
    /\ PlanIdle
    /\ FanIdle
    /\ has_plan \in BOOLEAN
    /\ plan_reads = <<>>
    /\ collected = FALSE
    /\ stored = {}
    /\ events = {}
    /\ aspecs = {}
    /\ jobs = <<>>
    /\ eval = NoEval
    /\ sync = NoSync

AnaNext ==
    /\ \/ implement_plan
       \/ \E i \in 1..AnaReads, st \in ProcessStatus : report_plateread(i, st)
       \/ \E i \in 1..AnaReads, copy_ok \in BOOLEAN, move_ok \in BOOLEAN :
              on_plateread_completed(i, copy_ok, move_ok)
       \/ \E a \in AnalysisSpecs : sync_google_sheets(a)
       \/ register_collection
    /\ UNCHANGED <<schedVars, collVars, planVars, fanVars>>

AnaSpec == AnaInit /\ [][AnaNext]_vars

(* ------------------------------------------------------------------ *)
(* claims about the analysis triggers                                   *)

(* the jobs bound to an analysis spec *)
JobsOf(a) == {j \in DOMAIN jobs : jobs[j].spec = a}

(* the analyses the last call of handle_analyses has submitted *)
Submitted == {eval.due[i] : i \in 1..eval.created}

(* the analyses the last call of handle_analyses found due *)
Due == {eval.due[i] : i \in DOMAIN eval.due}

(* C22: across any sequence of evaluations a POST_READ(k) spec is submitted
   exactly once; here the half of it that the code breaks: a POST_READ spec
   is never bound to more than one job *)
C22_PostReadOnce ==
    \A a \in aspecs : a.trigger = "POST_READ" => Cardinality(JobsOf(a)) <= 1

(* the number of COMPLETED reads of the plan *)
Completed == Cardinality({i \in DOMAIN plan_reads : plan_reads[i] = "COMPLETED"})

(* C23: a POST_READ(k) spec is submitted only in an evaluation where the
   number of COMPLETED reads equals k exactly, and no POST_READ spec is due
   while the count is 0 *)
C23_PostReadExact ==
    eval.ran =>
        \A a \in Due :
            a.trigger = "POST_READ" => Completed > 0 /\ a.trigger_value = Completed

(* an evaluation at the last read's completion submits POST_READ(AnaReads)
   and leaves POST_READ(1), whose count has been passed, alone *)
C23_Witness ==
    /\ eval.ran
    /\ Completed = AnaReads
    /\ \E a \in Submitted : a.trigger = "POST_READ" /\ a.trigger_value = AnaReads
    /\ \E b \in aspecs \ Due : b.trigger = "POST_READ" /\ b.trigger_value < Completed

(* C24: across any sequence of evaluations an IMMEDIATE spec is submitted
   at most once: a spec already bound to a job is not found due again *)
C24_ImmediateOnce ==
    /\ \A a \in aspecs : a.trigger = "IMMEDIATE" => Cardinality(JobsOf(a)) <= 1
    /\ eval.ran =>
          \A a \in Due :
              a.trigger = "IMMEDIATE" => \A j \in JobsOf(a) : j > eval.n_jobs

(* an evaluation that finds the IMMEDIATE spec bound to a job of an earlier
   evaluation and leaves it alone *)
C24_Witness ==
    /\ eval.ran
    /\ \E a \in aspecs \ Due :
          a.trigger = "IMMEDIATE" /\ \E j \in JobsOf(a) : j <= eval.n_jobs

(* C25: an IMMEDIATE spec is not submitted while the acquisition has no
   data collection in any tier *)
C25_ImmediateNeedsCollection ==
    eval.ran => \A a \in Due : a.trigger = "IMMEDIATE" => collected

AllEndstate ==
    /\ Len(plan_reads) = AnaReads
    /\ \A i \in DOMAIN plan_reads : plan_reads[i] \in {"COMPLETED", "CANCELLED", "ABORTED"}

(* C26: an END_OF_RUN spec is never submitted while a read of the plan is
   not in an endstate, and it is submitted in an evaluation where every
   read of the plan is in an endstate *)
C26_EndOfRun ==
    eval.ran =>
        /\ (\E a \in Due : a.trigger = "END_OF_RUN") => AllEndstate
        /\ (has_plan /\ AllEndstate) =>
              \A a \in aspecs :
                  a.trigger = "END_OF_RUN" =>
                      a \in Due /\ (~eval.raised => a \in Submitted)

(* the END_OF_RUN spec is submitted for a run whose reads have not all
   completed *)
C26_Witness ==
    /\ eval.ran
    /\ \E a \in Submitted : a.trigger = "END_OF_RUN"
    /\ \E i \in DOMAIN plan_reads : plan_reads[i] # "COMPLETED"
    /\ \E i \in DOMAIN plan_reads : plan_reads[i] = "COMPLETED"

(* C27: for an acquisition without acquisition plan handle_analyses
   evaluates only IMMEDIATE specs; POST_READ and END_OF_RUN specs are never
   submitted *)
C27_NoPlanImmediateOnly ==
    ~has_plan =>
        /\ \A j \in DOMAIN jobs : jobs[j].spec.trigger = "IMMEDIATE"
        /\ eval.ran => \A a \in Due : a.trigger = "IMMEDIATE"

(* an evaluation without acquisition plan whose analysis plan holds specs of
   every trigger and that submits the IMMEDIATE one *)
C27_Witness ==
    /\ ~has_plan
    /\ eval.ran
    /\ \A t \in AnalysisTrigger : \E a \in aspecs : a.trigger = t
    /\ \E a \in Submitted : a.trigger = "IMMEDIATE"

(* C28: a Job row, PENDING and bound to the submitted spec, is created only
   when the executor returns exit code 0 and a parseable job id; any other
   result raises and creates no Job row; an evaluation with no trigger met
   raises nothing and submits nothing *)
C28_JobOnlyOnSuccess ==
    eval.ran =>
        /\ Len(jobs) = eval.n_jobs + eval.created
        /\ eval.created <= Len(eval.results)
        /\ \A i \in 1..eval.created :
              /\ eval.results[i].returncode = 0
              /\ eval.results[i].job_id
              /\ jobs[eval.n_jobs + i].spec = eval.due[i]
              /\ jobs[eval.n_jobs + i].status = "PENDING"
        /\ eval.raised <=> \E i \in DOMAIN eval.results :
                              eval.results[i].returncode # 0 \/ ~eval.results[i].job_id
        /\ eval.raised => Len(eval.results) = eval.created + 1
        /\ eval.due = <<>> => ~eval.raised /\ eval.created = 0

(* an evaluation whose first submission creates a job and whose second
   submission raises *)
C28_Witness ==
    /\ eval.ran
    /\ eval.raised
    /\ eval.created = 1
    /\ Len(eval.due) > 1

(* ------------------------------------------------------------------ *)
(* app/acquisition/flows/analysis.py: reconciliation of the jobs        *)

MaxHooks == 2

(* the states of a Job record *)
SlurmJobState ==
    {"PENDING", "RUNNING", "COMPLETED", "FAILED", "CANCELLED", "PREEMPTED",
     "SUSPENDED", "UNHANDLED"}

(* the statuses sync_analysis_jobs selects *)
ActiveStates == {"PENDING", "RUNNING", "PREEMPTED", "SUSPENDED"}

(* the job states scontrol is taken to report *)
ReportedStates == {"RUNNING", "COMPLETED", "FAILED"}

NoMatch == "no match"

(* what the executor returns for scontrol show job: the exit code and the
   JobState of stdout, NoMatch when JOB_STATE_REGEX finds none *)
ScontrolResults ==
    [returncode : {0}, state : ReportedStates \cup {NoMatch}]
    \cup [returncode : {1}, state : {NoMatch}]

QueryError == "ValueError"

(* get_job_status: the state it returns, QueryError when it raises *)
get_job_status(result) ==
    IF result.returncode # 0 THEN QueryError
    ELSE IF result.state = NoMatch THEN QueryError
    ELSE result.state

(* a select without the where clause *)
all_jobs == DOMAIN jobs

(* the select of sync_analysis_jobs *)
active_jobs == {j \in DOMAIN jobs : jobs[j].status \in ActiveStates}

(* the jobs the loop has gone through when it has done n iterations *)
FirstActive(n) == {j \in active_jobs : Cardinality({i \in active_jobs : i <= j}) <= n}

(* the run is over and its END_OF_RUN analysis is due at every evaluation *)
EndOfRunSpec == [trigger |-> "END_OF_RUN", trigger_value |-> 0]

(* submit_sbatch_analysis for the END_OF_RUN analysis of the finished run *)
submit_sbatch_analysis ==
    /\ Len(jobs) < MaxJobs
    /\ jobs' = Append(jobs, [spec |-> EndOfRunSpec, status |-> "PENDING", hooks |-> 0])
    /\ sync' = NoSync
    /\ UNCHANGED <<has_plan, plan_reads, collected, stored, events, aspecs, eval>>

(* one iteration of the loop for job j with the state read from the
   executor: on_job_complete runs when the state is COMPLETED, then
   crud.update_sbatch_job writes the state when written *)
Reconciled(job, state, written) ==
    [job EXCEPT !.hooks = IF state = "COMPLETED" THEN @ + 1 ELSE @,
                !.status = IF written THEN state ELSE @]

(* sync_analysis_jobs: the loop goes through the first n active jobs with
   the results polls[j]; when n is not all of them the next job stops the
   tick, either because get_job_status raises (stop is a failing result) or
   because the write-back of its state raises after the iteration has got
   that far (stop is a result with a state, and the session fails) *)
sync_analysis_jobs(n, polls, stop) ==
    LET done == FirstActive(n)
        last == active_jobs \ done
        next == IF last = {} THEN 0 ELSE CHOOSE j \in last : \A i \in last : j <= i
        state == get_job_status(stop)
    IN  /\ n = Cardinality(active_jobs) => stop = [returncode |-> 0, state |-> NoMatch]
        /\ \A j \in done : get_job_status(polls[j]) # QueryError
        /\ jobs' = [j \in DOMAIN jobs |->
                      IF j \in done
                      THEN Reconciled(jobs[j], get_job_status(polls[j]), TRUE)
                      ELSE IF j = next /\ state # QueryError
                      THEN Reconciled(jobs[j], state, FALSE)
                      ELSE jobs[j]]
        /\ \A j \in DOMAIN jobs : jobs'[j].hooks <= MaxHooks
        /\ sync' = [ran |-> TRUE, active |-> active_jobs, written |-> done,
                    answers |-> [j \in done |-> get_job_status(polls[j])],
                    hooked |-> {j \in (done \cup {next}) \ {0} :
                                   jobs'[j].hooks > jobs[j].hooks},
                    failed |-> next, raised |-> next # 0]
        /\ UNCHANGED <<has_plan, plan_reads, collected, stored, events, aspecs, eval>>

(* a finished run with an END_OF_RUN analysis and no job yet *)
JobInit ==
    /\ SchedIdle
    /\ CollIdle
    /\ PlanIdle
    /\ FanIdle
    /\ has_plan = TRUE
    /\ plan_reads = [i \in 1..AnaReads |-> "COMPLETED"]
    /\ collected = TRUE
    /\ stored = {"ANALYSIS_STORE", "ARCHIVE_STORE"}
    /\ events = {}
    /\ aspecs = {EndOfRunSpec}
    /\ jobs = <<>>
    /\ eval = NoEval
    /\ sync = NoSync

JobNext ==
    /\ \/ submit_sbatch_analysis
       \/ \E n \in 0..Cardinality(active_jobs) :
             \E polls \in [FirstActive(n) -> {r \in ScontrolResults :
                                                 get_job_status(r) # QueryError}] :
                 \E stop \in ScontrolResults : sync_analysis_jobs(n, polls, stop)
    /\ UNCHANGED <<schedVars, collVars, planVars, fanVars>>

JobSpec == JobInit /\ [][JobNext]_vars

(* C29: across any sequence of reconciliation ticks, failing ticks
   included, on_job_complete runs exactly once per job; here the half the
   code breaks: it never runs a second time for a job *)
C29_HookOnce == \A j \in DOMAIN jobs : jobs[j].hooks <= 1

(* C30: when the query of one job fails during a tick, every other
   non-terminal job is still polled and has its state written back in that
   tick *)
C30_OtherJobsReconciled ==
    sync.ran => \A j \in sync.active : j # sync.failed => j \in sync.written

(* C40: across any sequence of evaluations made after every read of the
   plan has reached an endstate, an END_OF_RUN spec is submitted at most
   once: it is never bound to more than one job *)
C40_EndOfRunOnce ==
    \A a \in aspecs : a.trigger = "END_OF_RUN" => Cardinality(JobsOf(a)) <= 1

(* the jobs whose stored status is terminal *)
TerminalJobs ==
    {j \in DOMAIN jobs : jobs[j].status \in {"COMPLETED", "FAILED", "CANCELLED", "UNHANDLED"}}

(* C37: a reconciliation tick polls only jobs whose stored status is
   PENDING, RUNNING, PREEMPTED or SUSPENDED; a job whose stored status is
   terminal is not polled and never changes, and a tick repeated with the
   same executor answers leaves every job unchanged *)
C37_TerminalJobsLeftAlone ==
    [][/\ \A j \in TerminalJobs : jobs'[j] = jobs[j]
       /\ sync'.ran =>
             /\ sync'.active = {j \in DOMAIN jobs :
                                  jobs[j].status \in {"PENDING", "RUNNING", "PREEMPTED",
                                                      "SUSPENDED"}}
             /\ sync'.written \cup sync'.hooked \cup ({sync'.failed} \ {0})
                   \subseteq sync'.active
             /\ \A j \in sync'.written : jobs'[j].status = sync'.answers[j]
       /\ (/\ sync.ran /\ ~sync.raised
           /\ sync'.ran /\ ~sync'.raised
           /\ \A j \in sync'.active : sync'.answers[j] = sync.answers[j]) =>
                jobs' = jobs]_vars

(* a tick has polled an active job while another job was COMPLETED, its
   hook run by an earlier tick *)
C37_Witness ==
    /\ sync.ran
    /\ sync.written # {}
    /\ \E j \in TerminalJobs \ sync.active :
          jobs[j].status = "COMPLETED" /\ jobs[j].hooks = 1

(* C39: collections of different artifact types of one acquisition coexist
   in a tier: a copy of a collection of type t to tier D, transferred, is
   turned down as a duplicate only when a row of type t is at D *)
C39_TypesCoexist ==
    \A w \in Workers :
        LET rec == wk[w]
        IN  (/\ rec.pc = "failed" /\ rec.at = "check" /\ rec.err = "ValueError"
             /\ rec.transferred /\ rec.c.location # rec.dest) =>
                \E r \in rows :
                    r.location = rec.dest /\ r.artifact_type = rec.c.artifact_type

(* C38: on_plateread_completed moves the acquisition-tier collection to the
   archive only when every read of the plan is in an endstate; for an
   earlier completed read it only copies the collection to the analysis
   tier and leaves the acquisition-tier row and data in place *)
C38_ArchiveAtEndOfRun ==
    [][/\ ("ARCHIVE_STORE" \in stored' \ stored
           \/ "ACQUISITION_STORE" \in stored \ stored') => AllEndstate
       /\ (events' # events /\ Cardinality(events') < Cardinality(events)
           /\ ~AllEndstate) =>
             /\ "ACQUISITION_STORE" \in stored'
             /\ stored' \ stored \subseteq {"ACQUISITION_STORE", "ANALYSIS_STORE"}]_vars

(* the collection has been copied to the analysis store for an earlier
   read and is still in the acquisition store, one read being left *)
C38_Witness ==
    /\ stored = {"ACQUISITION_STORE", "ANALYSIS_STORE"}
    /\ events = {}
    /\ \E i \in DOMAIN plan_reads : plan_reads[i] = "COMPLETED"
    /\ \E i \in DOMAIN plan_reads : plan_reads[i] = "PENDING"

----------------------------------------------------------------------------
(* Part 5: the materialisation of the reads of an acquisition plan          *)
(* (acquisition/flows/acquisition_planning.py), called when a wellplate is  *)
(* moved (labware/events.py) and when a plan is imported with a start time  *)
(* (gsheet_integration/acquisition_plans.py).  Time is counted in hours.    *)

(* the values the model draws the plan from *)
PlanIntervals == {1, 2}
DeadlineDeltas == {None} \cup {Some(d) : d \in {0 - 1, 0, 1}}
PlanStorage == {"CYTOMAT2", "HOTEL"}
ImportStarts == {None, Some(1)}
WellplateLocations == {"EXTERNAL", "CYTOMAT2", "HOTEL"}

AcquisitionPlanRows ==
    [n_reads : 1..NumReads, interval : PlanIntervals,
     deadline_delta : DeadlineDeltas, storage_location : PlanStorage]

(* timedelta(days=9999) *)
FarFuture == 9999 * 24

(* bool(plan.deadline_delta): None and timedelta(0) are false *)
truthy(delta) == delta # None /\ delta[1] # 0

(* the deadline implement_plan gives a read *)
implement_plan_deadline(p, start_after) ==
    IF truthy(p.deadline_delta)
    THEN Some(start_after + p.deadline_delta[1])
    ELSE Some(start_after + FarFuture)

(* implement_plan counting the reads from 1 *)
implement_plan_rows_from_one(p, start_time) ==
    [i \in 1..p.n_reads |->
        LET start_after == start_time + (i * p.interval)
        IN  [start_after |-> start_after,
             deadline |-> implement_plan_deadline(p, start_after),
             status |-> "PENDING"]]

(* the PlatereadSpec rows implement_plan adds: for i in range(plan.n_reads) *)
implement_plan_rows(p, start_time) ==
    [i \in 1..p.n_reads |->
        LET start_after == start_time + ((i - 1) * p.interval)
        IN  [start_after |-> start_after,
             deadline |-> implement_plan_deadline(p, start_after),
             status |-> "PENDING"]]

(* AcquisitionPlan.completed: reads exist and all are in an endstate *)
completed(rs) == Len(rs) > 0 /\ \A i \in DOMAIN rs : is_endstate(rs[i].status)

(* AcquisitionPlan.scheduled, as far as the tests of acquisition/test_crud.py
   fix it: true with a SCHEDULED read, false without reads, with PENDING
   reads and with reads in an endstate *)
scheduled_values(rs) ==
    IF \E i \in DOMAIN rs : rs[i].status = "SCHEDULED" THEN {TRUE}
    ELSE IF \A i \in DOMAIN rs : rs[i].status = "PENDING" \/ is_endstate(rs[i].status)
    THEN {FALSE}
    ELSE BOOLEAN

(* unscheduled_reads of schedule_unscheduled_reads *)
unscheduled_reads(rs) == {i \in DOMAIN rs : rs[i].status = "PENDING"}

(* the test of check_to_schedule_acquisition_plan with the storage location
   left out *)
plan_is_due_anywhere(p, loc, is_scheduled, rs) == ~is_scheduled /\ ~completed(rs)

(* plan.storage_location == wellplate.location and not plan.scheduled and
   not plan.completed *)
plan_is_due(p, loc, is_scheduled, rs) ==
    p.storage_location = loc /\ ~is_scheduled /\ ~completed(rs)

(* The body of check_to_schedule_acquisition_plan for one plan of the
   wellplate at loc.  submit_plateread_spec writes a batch file and sets the
   read SCHEDULED; fail_at is the read whose submission raises, 0 for none. *)
check_to_schedule_acquisition_plan(p, loc, is_scheduled, fail_at) ==
    LET go == plan_is_due(p, loc, is_scheduled, reads)
        impl == go /\ Len(reads) = 0
        rs == IF impl THEN implement_plan_rows(p, now) ELSE reads
        todo == IF go THEN unscheduled_reads(rs) ELSE {}
        done == {i \in todo : fail_at = 0 \/ i < fail_at}
    IN  /\ is_scheduled \in scheduled_values(reads)
        /\ fail_at \in {0} \cup todo
        /\ reads' = [i \in DOMAIN rs |->
                        IF i \in done THEN [rs[i] EXCEPT !.status = "SCHEDULED"]
                        ELSE rs[i]]
        /\ chk' = [ran |-> TRUE, implemented |-> impl, start_time |-> now,
                   colocated |-> p.storage_location = loc, pre |-> reads,
                   created |-> IF impl THEN rs ELSE <<>>,
                   submitted |-> done, raised |-> fail_at # 0]

(* PATCH of Wellplate.location followed by handle_wellplate_location_update *)
handle_wellplate_location_update(dest, is_scheduled, fail_at) ==
    /\ wp_location # dest
    /\ wp_location' = dest
    /\ IF wp_location = "EXTERNAL" /\ dest \in {"CYTOMAT2", "HOTEL"}
          /\ acquisition_plans # <<>>
       THEN check_to_schedule_acquisition_plan(acquisition_plans[1], dest,
                                               is_scheduled, fail_at)
       ELSE /\ is_scheduled = FALSE
            /\ fail_at = 0
            /\ reads' = reads
            /\ chk' = NoCheck
    /\ UNCHANGED <<acquisition_plans, now>>

(* CreateAcquisitionPlanRecord.process: the plan is created and, when the
   record gives a start time, implemented at once *)
process_record(p, start_after) ==
    /\ acquisition_plans = <<>>
    /\ acquisition_plans' = <<p>>
    /\ IF start_after = None
       THEN /\ reads' = <<>>
            /\ chk' = NoCheck
       ELSE /\ reads' = implement_plan_rows(p, start_after[1])
            /\ chk' = [NoCheck EXCEPT !.implemented = TRUE,
                                      !.start_time = start_after[1],
                                      !.created = implement_plan_rows(p, start_after[1])]
    /\ UNCHANGED <<wp_location, now>>

(* the scheduler and the instrument write the status of a read *)
update_plateread_status(i, s) ==
    /\ i \in DOMAIN reads
    /\ <<reads[i].status, s>> \in ReadTransitions
    /\ reads' = [reads EXCEPT ![i].status = s]
    /\ chk' = NoCheck
    /\ UNCHANGED <<acquisition_plans, wp_location, now>>

(* an hour passes *)
PlanClock ==
    /\ now < MaxTime
    /\ now' = now + 1
    /\ chk' = NoCheck
    /\ UNCHANGED <<acquisition_plans, wp_location, reads>>

PlanInit == SchedIdle /\ CollIdle /\ AnaIdle /\ PlanIdle /\ FanIdle

PlanNext ==
    /\ \/ \E p \in AcquisitionPlanRows, start_after \in ImportStarts :
              process_record(p, start_after)
       \/ \E dest \in WellplateLocations, is_scheduled \in BOOLEAN,
             fail_at \in 0..NumReads :
              handle_wellplate_location_update(dest, is_scheduled, fail_at)
       \/ \E i \in 1..NumReads, s \in ProcessStatus : update_plateread_status(i, s)
       \/ PlanClock
    /\ UNCHANGED <<plan, location, read, status, tick, collVars, anaVars, fanVars>>

PlanSpec == PlanInit /\ [][PlanNext]_vars

(* the plan of the wellplate, when it has one *)
ThePlan == acquisition_plans[1]

(* C33: implement_plan on a plan with n reads and interval d creates exactly
   n reads, all PENDING, with start_after_i = base + i*d for i in [0, n). *)
C33_ImplementPlan ==
    chk.implemented =>
        /\ Len(chk.created) = ThePlan.n_reads
        /\ \A i \in 1..ThePlan.n_reads :
              /\ chk.created[i].status = "PENDING"
              /\ chk.created[i].start_after =
                     chk.start_time + ((i - 1) * ThePlan.interval)
        /\ DOMAIN reads = DOMAIN chk.created
        /\ \A i \in DOMAIN reads : reads[i].start_after = chk.created[i].start_after

C33_Witness ==
    /\ chk.ran /\ chk.implemented
    /\ Len(reads) = NumReads
    /\ ThePlan.interval = 2
    /\ chk.start_time = 1
    /\ reads[NumReads].start_after = 1 + ((NumReads - 1) * 2)

(* C34: every read materialised from a plan whose deadline offset is set,
   whatever its sign, has deadline_i = start_after_i + offset; the reads of
   a plan without deadline offset have no deadline. *)
C34_Deadlines ==
    chk.implemented =>
        \A i \in DOMAIN reads :
            reads[i].deadline =
                IF ThePlan.deadline_delta = None THEN None
                ELSE Some(reads[i].start_after + ThePlan.deadline_delta[1])

(* C35: is_endstate holds exactly for COMPLETED, CANCELLED and ABORTED, and
   a plan is completed iff it has a read and every read is in an endstate;
   the plan check leaves a completed plan alone. *)
C35_Endstates ==
    /\ \A s \in ProcessStatus :
          is_endstate(s) <=> s \in {"COMPLETED", "CANCELLED", "ABORTED"}
    /\ completed(reads) <=>
          /\ Len(reads) >= 1
          /\ \A i \in DOMAIN reads : reads[i].status \in {"COMPLETED", "CANCELLED", "ABORTED"}
    /\ (chk.ran /\ completed(chk.pre)) => (reads = chk.pre /\ chk.submitted = {})

C35_Witness ==
    /\ chk.ran /\ completed(chk.pre) /\ chk.colocated
    /\ \E i \in DOMAIN reads : reads[i].status = "COMPLETED"
    /\ \E i \in DOMAIN reads : reads[i].status = "CANCELLED"

(* what every reading of C36 shares: the plan has no reads or n_reads reads,
   implement_plan runs only for a plan without reads, and a plan check of an
   implemented plan creates no read, keeps the times of its reads and submits
   only reads that were PENDING *)
MaterialisedOnce ==
    /\ acquisition_plans = <<>> => reads = <<>>
    /\ acquisition_plans # <<>> => Len(reads) \in {0, ThePlan.n_reads}
    /\ chk.implemented => chk.pre = <<>>
    /\ (chk.ran /\ chk.pre # <<>>) =>
          /\ ~chk.implemented
          /\ DOMAIN reads = DOMAIN chk.pre
          /\ \A i \in DOMAIN reads :
                /\ reads[i].start_after = chk.pre[i].start_after
                /\ reads[i].deadline = chk.pre[i].deadline
                /\ i \in chk.submitted => chk.pre[i].status = "PENDING"
                /\ i \notin chk.submitted => reads[i].status = chk.pre[i].status

(* C36 as stated: for every plan, in every reachable state the number of
   materialised reads is 0 or n_reads; reads are materialised only when the
   wellplate's location equals the plan's storage location and at most once
   per plan, and re-running the plan check for an implemented plan neither
   creates reads nor resubmits reads that are not PENDING. *)
C36_AsStated ==
    /\ MaterialisedOnce
    /\ chk.implemented => wp_location = ThePlan.storage_location

(* C36, amended: as above, with the location condition on the reads that the
   plan check materialises; the import of a plan with a start time
   materialises its reads wherever the wellplate is. *)
C36_PlanCheck ==
    /\ MaterialisedOnce
    /\ (chk.ran /\ chk.implemented) => wp_location = ThePlan.storage_location
    /\ (chk.ran /\ ~chk.colocated) => (reads = chk.pre /\ chk.submitted = {})

C36_Witness ==
    /\ chk.ran /\ ~chk.implemented /\ chk.colocated
    /\ Len(chk.pre) = NumReads
    /\ chk.submitted # {}
    /\ \E i \in DOMAIN reads : chk.pre[i].status = "CANCELLED"

----------------------------------------------------------------------------
(* Part 6: the post-acquisition flows of                                    *)
(* acquisition/flows/plateread_postprocessing.py (post_plateread_handler,   *)
(* handle_post_acquisition, sync_and_archive, submit_analysis_plan) next to *)
(* the analysis submission of acquisition/flows/analysis.py                 *)

(* SlurmJobStatus values of SBatchAnalysisSpec.status that the flows write *)
SpecStatus == {"UNSUBMITTED", "SUBMITTED"}

(* the specs drawn for an analysis plan *)
FanAnalysisSpecs == {a \in AnalysisSpecs : a.trigger \in {"IMMEDIATE", "END_OF_RUN"}}

(* the errors of asyncio.gather with the exception of archive dropped *)
transfer_errors_sync_only(sync_ok, archive_ok) == IF sync_ok THEN {} ELSE {"sync"}

(* errors of sync_and_archive: the exceptions asyncio.gather returns *)
transfer_errors(sync_ok, archive_ok) ==
    (IF sync_ok THEN {} ELSE {"sync"}) \cup (IF archive_ok THEN {} ELSE {"archive"})

(* crud.create_artifact_collection_replica: a row for the same collection at
   location *)
create_artifact_collection_replica(c, id, loc) ==
    [id |-> id, artifact_type |-> c.artifact_type, location |-> loc]

(* the specs submit_analysis_plan goes through, in the order of
   analysis_plan.sbatch_analyses *)
unsubmitted(specs, st) ==
    LET IsUnsubmitted(a) == st[a] = "UNSUBMITTED"
    IN  SelectSeq(SeqOf(specs), IsUnsubmitted)

(* submit_analysis_plan: submit_analysis_request emits the request of each
   UNSUBMITTED spec, then the spec is set SUBMITTED; fail_at is the spec whose
   emit_event raises, 0 for none *)
submit_analysis_plan(fail_at) ==
    LET todo == unsubmitted(aspecs, spec_status)
        n_done == IF fail_at = 0 THEN Len(todo) ELSE fail_at - 1
        done == {todo[k] : k \in 1..n_done}
    IN  /\ fail_at \in 0..Len(todo)
        /\ spec_status' = [a \in aspecs |-> IF a \in done THEN "SUBMITTED"
                                           ELSE spec_status[a]]
        /\ requests' = [a \in aspecs |-> IF a \in done THEN requests[a] + 1
                                        ELSE requests[a]]

(* handle_submit_analysis_plan, the deployment submit-analysis-plan *)
handle_submit_analysis_plan(fail_at) ==
    /\ submit_analysis_plan(fail_at)
    /\ fanout' = NoPost
    /\ UNCHANGED <<collVars, anaVars>>

(* the outcome of a post_plateread_handler run that stops before the
   transfers *)
Stopped(error) ==
    /\ fanout' = [NoPost EXCEPT !.ran = TRUE, !.raised = error, !.rows = rows,
                              !.files = files]
    /\ UNCHANGED <<rows, files, next_id, stored, spec_status, requests>>

(* sync_and_archive for the collection c, then handle_submit_analysis_plan.
   Both transfers write below their destination whether they succeed or not;
   the replica rows are inserted under the unique constraint of the table;
   session.delete(c) reaches the table when the session commits it
   (row_deleted); cleanup removes the data of c unless it raises. *)
sync_and_archive(c, sync_ok, archive_ok, row_deleted, cleanup_ok, fail_at) ==
    LET errors == transfer_errors(sync_ok, archive_ok)
        written == {sync_cmd(PathOf(c), "ANALYSIS_STORE"),
                    archive_cmd(PathOf(c), "ARCHIVE_STORE")}
        archived == create_artifact_collection_replica(c, next_id, "ARCHIVE_STORE")
        synced == create_artifact_collection_replica(c, next_id + 1, "ANALYSIS_STORE")
        first_ok == unique_acquisition_collection(rows, archived)
        second_ok == first_ok /\ unique_acquisition_collection(rows \cup {archived}, synced)
        inserted == IF errors # {} \/ ~first_ok THEN {}
                    ELSE IF ~second_ok THEN {archived}
                    ELSE {archived, synced}
        error == IF errors # {} THEN "AggregateError"
                 ELSE IF ~second_ok THEN "IntegrityError"
                 ELSE IF ~cleanup_ok THEN "OSError"
                 ELSE "none"
    IN  /\ (errors # {} \/ ~second_ok) => (cleanup_ok /\ ~row_deleted)
        /\ ~cleanup_ok => ~row_deleted
        /\ rows' = (rows \cup inserted) \ (IF row_deleted THEN {c} ELSE {})
        /\ next_id' = next_id + Cardinality(inserted)
        /\ files' = (files \cup written)
                       \ (IF error = "none" THEN {PathOf(c)} ELSE {})
        /\ stored' = {r.location : r \in rows'}
        /\ IF error = "none"
           THEN submit_analysis_plan(fail_at)
           ELSE fail_at = 0 /\ UNCHANGED <<spec_status, requests>>
        /\ fanout' = [ran |-> TRUE, transfers |-> TRUE, sync_ok |-> sync_ok,
                    archive_ok |-> archive_ok, raised |-> error, rows |-> rows,
                    files |-> files, source |-> c]

(* post_plateread_handler for the event of read i, reported COMPLETED after
   RUNNING: when every read of the plan is COMPLETED, handle_post_acquisition
   looks the acquisition's collection up and runs sync_and_archive *)
post_plateread_handler(i, sync_ok, archive_ok, row_deleted, cleanup_ok, fail_at) ==
    LET found == get_artifact_collection_by_key(rows, "ACQUISITION_STORE",
                                                "ACQUISITION_DATA")
        reached == /\ \A j \in DOMAIN plan_reads : plan_reads[j] = "COMPLETED"
                   /\ \E c \in found : PathOf(c) \in files
    IN  /\ i \in events
        /\ events' = events \ {i}
        /\ ~reached => (sync_ok /\ archive_ok /\ ~row_deleted /\ cleanup_ok /\ fail_at = 0)
        /\ IF \E j \in DOMAIN plan_reads : plan_reads[j] # "COMPLETED"
           THEN Stopped("none")
           ELSE IF found = {} THEN Stopped("ValueError")
           ELSE \E c \in found :
                   IF PathOf(c) \notin files THEN Stopped("FileNotFoundError")
                   ELSE sync_and_archive(c, sync_ok, archive_ok, row_deleted,
                                         cleanup_ok, fail_at)
        /\ UNCHANGED <<ops, wk, has_plan, plan_reads, collected, aspecs, jobs, eval, sync>>

(* a read changes its status *)
fan_report_plateread(i, st) ==
    /\ report_plateread(i, st)
    /\ fanout' = NoPost
    /\ UNCHANGED <<collVars, spec_status, requests>>

(* sync_google_sheets adds a spec, which is created UNSUBMITTED, and calls
   handle_analyses; submit_sbatch_analysis creates the job rows and leaves
   SBatchAnalysisSpec.status as it is *)
fan_sync_google_sheets(a) ==
    /\ sync_google_sheets(a)
    /\ spec_status' = [b \in aspecs \cup {a} |->
                          IF b \in aspecs THEN spec_status[b] ELSE "UNSUBMITTED"]
    /\ requests' = [b \in aspecs \cup {a} |-> IF b \in aspecs THEN requests[b] ELSE 0]
    /\ fanout' = NoPost
    /\ UNCHANGED collVars

(* the acquisition has an implemented plan and its data lies in the
   acquisition store *)
SourceRow == [id |-> 1, artifact_type |-> "ACQUISITION_DATA", location |-> "ACQUISITION_STORE"]

FanInit ==
    /\ SchedIdle
    /\ PlanIdle
    /\ FanIdle
    /\ rows = {SourceRow}
    /\ files = {PathOf(SourceRow)}
    /\ next_id = 2
    /\ ops = 0
    /\ wk = [w \in Workers |-> IdleWorker]
    /\ has_plan = TRUE
    /\ plan_reads = [i \in 1..AnaReads |-> "PENDING"]
    /\ collected = TRUE
    /\ stored = {"ACQUISITION_STORE"}
    /\ events = {}
    /\ aspecs = {}
    /\ jobs = <<>>
    /\ eval = NoEval
    /\ sync = NoSync

FanNext ==
    /\ \/ \E i \in 1..AnaReads, st \in ProcessStatus : fan_report_plateread(i, st)
       \/ \E a \in FanAnalysisSpecs : fan_sync_google_sheets(a)
       \/ \E i \in 1..AnaReads, sync_ok \in BOOLEAN, archive_ok \in BOOLEAN,
             row_deleted \in BOOLEAN, cleanup_ok \in BOOLEAN, fail_at \in 0..Cardinality(FanAnalysisSpecs) :
              post_plateread_handler(i, sync_ok, archive_ok, row_deleted,
                                     cleanup_ok, fail_at)
       \/ \E fail_at \in 0..Cardinality(FanAnalysisSpecs) : handle_submit_analysis_plan(fail_at)
    /\ UNCHANGED <<schedVars, planVars>>

FanSpec == FanInit /\ [][FanNext]_vars

(* C31: in the fan-out step the source is deleted only if both transfers
   succeeded; if either transfer fails an aggregate error is raised, the
   source data and its row remain and no destination row is created. *)
C31_FanOut ==
    (fanout.ran /\ fanout.transfers) =>
        /\ (~fanout.sync_ok \/ ~fanout.archive_ok) =>
              /\ fanout.raised = "AggregateError"
              /\ PathOf(fanout.source) \in files
              /\ fanout.source \in rows
              /\ rows = fanout.rows
        /\ (PathOf(fanout.source) \notin files \/ fanout.source \notin rows) =>
              (fanout.sync_ok /\ fanout.archive_ok)

C31_Witness ==
    /\ fanout.ran /\ fanout.transfers
    /\ fanout.sync_ok /\ ~fanout.archive_ok
    /\ fanout.raised = "AggregateError"
    /\ rows = {SourceRow}
    /\ archive_cmd(PathOf(SourceRow), "ARCHIVE_STORE") \in files

(* the successful submissions of a spec: the requests emitted for it and the
   jobs created for it *)
Submissions(a) == requests[a] + Cardinality(JobsOf(a))

(* C32: an analysis spec starts UNSUBMITTED and becomes SUBMITTED when it is
   successfully submitted; its status never returns to UNSUBMITTED, a spec
   whose submission failed stays UNSUBMITTED and a SUBMITTED spec is not
   submitted again. *)
C32_SpecStatus ==
    [][/\ \A a \in aspecs' :
             /\ spec_status'[a] \in SpecStatus
             /\ Submissions(a)' > 0 => spec_status'[a] = "SUBMITTED"
             /\ Submissions(a)' = 0 => spec_status'[a] = "UNSUBMITTED"
       /\ \A a \in aspecs :
             spec_status[a] = "SUBMITTED" =>
                 /\ spec_status'[a] = "SUBMITTED"
                 /\ Submissions(a)' = Submissions(a)]_vars

====
